---- MODULE Spec2Model ----
(***************************************************************************)
(* Verification model of the api-forge / mock-dash client core:            *)
(*   - InterceptorManager (add / remove / runAll),                         *)
(*   - the request pipeline of callRestEndpoint and callStreamEndpoint,    *)
(*   - the path tree built by createApiClient / buildNode and the URL      *)
(*     substitution of _prepareFetch,                                      *)
(*   - the streaming decoders (readLines, NDJSON, SSE, binary) and the     *)
(*     inline read loop of callSSEEndpoint,                                *)
(*   - concurrent callers holding subtrees of one client,                  *)
(*   - the headers, options and body built by _prepareFetch, and the       *)
(*     answers of createMockServer.                                        *)
(* Each subsystem has its own specification over its own variables; the    *)
(* variables of the other subsystems stay at their idle values.            *)
(***************************************************************************)
EXTENDS Naturals, Integers, Sequences, FiniteSets, TLC

VARIABLES
  \* ---- InterceptorManager ----
  callbacks,    \* InterceptorManager.callbacks: the ordered callback array
  removers,     \* removers handed out by addInterceptor: the callback each closes
                \* over, and whether the remover has been invoked yet
  run,          \* the runAll invocation in flight (position of the for..of loop)
  runsDone,     \* number of completed runAll invocations
  \* ---- request pipeline ----
  call,         \* the call in flight: inputs, position in the pipeline, outcome
  callsDone,    \* number of completed calls
  \* ---- path tree ----
  registry,     \* apiSchema: the endpoints in Object.entries order
  apiRoot,      \* the merged call tree (key path -> leaf)
  built,        \* number of registry entries already merged into apiRoot
  nav,          \* a caller navigating the tree and invoking a terminal call
  mergePolicy,  \* what deepMerge does when a key holds a non-object on either side
  \* ---- streaming decoders ----
  strm,         \* one decoder instance: body stream, reader, parser, output
  \* ---- concurrent callers of one client ----
  heap,         \* the pathParams objects allocated so far (identity = index)
  callers,      \* each caller: the node it holds and the call it has in flight
  \* ---- request preparation ----
  prep          \* one _prepareFetch: its inputs, the options built, the Request

icptVars == <<callbacks, removers, run, runsDone>>
pipeVars == <<call, callsDone>>
treeVars == <<registry, apiRoot, built, nav, mergePolicy>>
strmVars == <<strm>>
callerVars == <<heap, callers>>
prepVars == <<prep>>
vars == <<callbacks, removers, run, runsDone, call, callsDone,
          registry, apiRoot, built, nav, mergePolicy, strm, heap, callers, prep>>

(***************************************************************************)
(* Generic helpers                                                         *)
(***************************************************************************)
Last(s) == s[Len(s)]
Front(s) == SubSeq(s, 1, Len(s) - 1)

RECURSIVE Flatten(_)
Flatten(ss) == IF ss = <<>> THEN <<>> ELSE Head(ss) \o Flatten(Tail(ss))

\* sequences over S of length 0..n
SeqsUpTo(S, n) == UNION {[1..k -> S] : k \in 0..n}

\* Array.prototype.indexOf: first index holding x, 0 when absent
IndexOf(s, x) ==
  IF \E i \in 1..Len(s) : s[i] = x
    THEN CHOOSE i \in 1..Len(s) : s[i] = x /\ \A j \in 1..(i - 1) : s[j] # x
    ELSE 0

\* Array.prototype.splice(i, 1)
RemoveAt(s, i) == SubSeq(s, 1, i - 1) \o SubSeq(s, i + 1, Len(s))

(***************************************************************************)
(* Idle values of each subsystem                                           *)
(***************************************************************************)
IdleRun == [pc |-> "idle"]
IdleCall == [pc |-> "idle"]
IdleNav == [pc |-> "idle"]
IdleStrm == [pc |-> "idle"]

IcptIdle == callbacks = <<>> /\ removers = <<>> /\ run = IdleRun /\ runsDone = 0
PipeIdle == call = IdleCall /\ callsDone = 0
TreeIdle ==
  registry = <<>> /\ apiRoot = <<>> /\ built = 0 /\ nav = IdleNav /\ mergePolicy = "last"
StrmIdle == strm = IdleStrm
CallersIdle == heap = <<>> /\ callers = <<>>
PrepIdle == prep = [pc |-> "idle"]

(***************************************************************************)
(* InterceptorManager                                                      *)
(***************************************************************************)
\* bounds
CallbackIds == {"A", "B"}
MaxCallbacks == 3
MaxRemovers == 3
MaxRuns == 2

\* the undefined value; every other threaded value is the sequence of the
\* callbacks that have replaced it so far
Undefined == <<"undefined">>
InitialData == <<>>

\* what callback cb may return for argument arg: undefined (side effect only)
\* or a new value derived from the argument
CallbackResults(cb, arg) == {Undefined, Append(arg, cb)}

\* addInterceptor / use: push the callback, hand out a remover closing over it
AddInterceptor(cb) ==
  /\ Len(callbacks) < MaxCallbacks
  /\ Len(removers) < MaxRemovers
  /\ callbacks' = Append(callbacks, cb)
  /\ removers' = Append(removers, [callback |-> cb, invoked |-> FALSE])
  /\ run' = IF run.pc \in {"loop", "await"} THEN [run EXCEPT !.mutated = TRUE] ELSE run
  /\ UNCHANGED <<runsDone, pipeVars, treeVars, strmVars, callerVars, prepVars>>

\* the remover: indexOf(callback), splice when found
RemoveInterceptor(r) ==
  /\ r \in 1..Len(removers)
  /\ LET index == IndexOf(callbacks, removers[r].callback) IN
       /\ callbacks' = IF index > 0 THEN RemoveAt(callbacks, index) ELSE callbacks
       /\ run' = IF run.pc \in {"loop", "await"} /\ index > 0
                   THEN [run EXCEPT !.mutated = TRUE] ELSE run
  /\ removers' = [removers EXCEPT ![r].invoked = TRUE]
  /\ UNCHANGED <<runsDone, pipeVars, treeVars, strmVars, callerVars, prepVars>>

\* runAll entry: currentData = data, the for..of iterator starts at the front
RunAllStart ==
  /\ run.pc \in {"idle", "done"}
  /\ runsDone < MaxRuns
  /\ run' = [pc |-> "loop", idx |-> 1, cur |-> InitialData, calls |-> <<>>,
             active |-> 0, maxActive |-> 0, mutated |-> FALSE,
             atStart |-> callbacks, result |-> Undefined]
  /\ UNCHANGED <<callbacks, removers, runsDone, pipeVars, treeVars, strmVars, callerVars, prepVars>>

\* for (const callback of this.callbacks): the array iterator reads the live
\* array at its index; the callback is invoked and awaited
RunAllInvokeBody(r) ==
  [r EXCEPT !.pc = "await",
            !.idx = r.idx + 1,
            !.calls = Append(r.calls, [cb |-> callbacks[r.idx], arg |-> r.cur, ret |-> Undefined]),
            !.active = r.active + 1,
            !.maxActive = IF r.active + 1 > r.maxActive THEN r.active + 1 ELSE r.maxActive]

RunAllInvoke ==
  /\ run.pc = "loop"
  /\ run.idx <= Len(callbacks)
  /\ run' = RunAllInvokeBody(run)
  /\ UNCHANGED <<callbacks, removers, runsDone, pipeVars, treeVars, strmVars, callerVars, prepVars>>

\* mutant of ThreadResult: the undefined check is dropped
ThreadResultNoCheck(cur, result) == result

\* if (result !== undefined) currentData = result
ThreadResult(cur, result) == IF result # Undefined THEN result ELSE cur

\* the awaited callback settles with result
RunAllResume ==
  /\ run.pc = "await"
  /\ LET n == Len(run.calls) IN
     \E result \in CallbackResults(run.calls[n].cb, run.calls[n].arg) :
       run' = [run EXCEPT !.pc = "loop",
                          !.cur = ThreadResult(run.cur, result),
                          !.calls[n].ret = result,
                          !.active = run.active - 1]
  /\ UNCHANGED <<callbacks, removers, runsDone, pipeVars, treeVars, strmVars, callerVars, prepVars>>

\* iterator exhausted: return currentData
RunAllReturn ==
  /\ run.pc = "loop"
  /\ run.idx > Len(callbacks)
  /\ run' = [run EXCEPT !.pc = "done", !.result = run.cur]
  /\ runsDone' = runsDone + 1
  /\ UNCHANGED <<callbacks, removers, pipeVars, treeVars, strmVars, callerVars, prepVars>>

IcptInit == IcptIdle /\ PipeIdle /\ TreeIdle /\ StrmIdle /\ CallersIdle /\ PrepIdle

IcptNext ==
  \/ \E cb \in CallbackIds : AddInterceptor(cb)
  \/ \E r \in 1..MaxRemovers : RemoveInterceptor(r)
  \/ RunAllStart
  \/ RunAllInvoke
  \/ RunAllResume
  \/ RunAllReturn

SpecIcpt == IcptInit /\ [][IcptNext]_vars

\* the value a left-to-right fold hands on after the results rets: the last
\* one that is not undefined, v0 when there is none
LastDefined(v0, rets) ==
  LET D == {i \in 1..Len(rets) : rets[i] # Undefined} IN
    IF D = {} THEN v0 ELSE rets[CHOOSE i \in D : \A j \in D : j <= i]

RetsBefore(r, i) == [j \in 1..(i - 1) |-> r.calls[j].ret]

\* C4: a runAll whose callback list was not mutated while it ran has invoked
\* every registered callback exactly once, in registration order, one at a
\* time; each callback received the most recent non-undefined value produced
\* before it (the initial value if none) and runAll returned the most recent
\* non-undefined value after the last callback.
C4_RunAllThreadsInOrder ==
  (run.pc = "done" /\ ~run.mutated) =>
    /\ Len(run.calls) = Len(run.atStart)
    /\ \A i \in 1..Len(run.calls) :
         /\ run.calls[i].cb = run.atStart[i]
         /\ run.calls[i].arg = LastDefined(InitialData, RetsBefore(run, i))
    /\ run.result = LastDefined(InitialData, RetsBefore(run, Len(run.calls) + 1))
    /\ run.maxActive <= 1
    /\ run.active = 0

C4_Witness ==
  /\ run.pc = "done" /\ ~run.mutated
  /\ Len(run.calls) = 3
  /\ run.calls[1].ret # Undefined
  /\ run.calls[2].ret = Undefined
  /\ run.calls[3].arg = run.calls[1].ret


(***************************************************************************)
(* Request pipeline: _prepareFetch, callRestEndpoint, callStreamEndpoint    *)
(***************************************************************************)
\* bounds
MaxCalls == 1
MaxGlobal == 1

\* undefined as a pipeline value (request options, response, decoded body)
Undef == [t |-> "undefined"]

\* what a transform callback does with the value it is given: "undef" has a
\* side effect only and returns undefined, "same" returns the value as it is,
\* "mark" returns a changed copy (the change is recorded as a mark on it)
Behaviours == {"undef", "same"}
LocalTransforms == {"none", "mark"} \cup Behaviours
ApplyCallback(b, v) ==
  IF b = "undef" \/ v = Undef THEN Undef
  ELSE IF b = "mark" THEN [v EXCEPT !.marks = Append(@, "m")]
  ELSE v

\* InterceptorManager.runAll as a left fold over the callback array
RECURSIVE RunAllFold(_, _)
RunAllFold(cbs, v) ==
  IF cbs = <<>> THEN v
  ELSE LET result == ApplyCallback(Head(cbs), v) IN
         RunAllFold(Tail(cbs), IF result # Undef THEN result ELSE v)

\* endpoint.response: a zod schema (scalar) or a StreamResponse
ScalarSchemas == {"json", "string", "void"}
StreamSchemas == {"sse", "ndjson", "binary"}
EndpointKind(schema) == IF schema \in StreamSchemas THEN "stream" ELSE "rest"

\* what the transport rejects with
TransportErrors == {"TypeError:fetch", "AbortError", "Error", "nonError"}

\* responses the transport resolves with; body "j1" is JSON text of a value
\* the json schema accepts, "j2" JSON text of a value it rejects, "txt" text
\* that is not JSON, "" the empty body; hasBody = FALSE is a null body
Statuses == {200, 204, 404, 500}
ContentTypes == {"application/json", "text/plain", "none"}
Bodies == {"j1", "j2", "txt", ""}
Responses ==
  {[t |-> "response", status |-> st, ctype |-> ct, body |-> b, hasBody |-> TRUE, bodyUsed |-> FALSE, marks |-> <<>>] :
      st \in Statuses, ct \in ContentTypes, b \in Bodies}
  \cup
  {[t |-> "response", status |-> st, ctype |-> ct, body |-> "", hasBody |-> FALSE, bodyUsed |-> FALSE, marks |-> <<>>] :
      st \in Statuses, ct \in ContentTypes}

\* Response.ok
Ok(resp) == resp.status >= 200 /\ resp.status <= 299

\* Response.text(): rejects when the body was already read
ReadText(resp) ==
  IF resp.bodyUsed THEN [ok |-> FALSE, value |-> Undef, resp |-> resp]
  ELSE [ok |-> TRUE, value |-> [t |-> "text", v |-> resp.body],
        resp |-> [resp EXCEPT !.bodyUsed = resp.hasBody]]

\* JSON.parse of a body text
JsonParse(text) ==
  IF text = "j1" THEN [ok |-> TRUE, value |-> [t |-> "json", v |-> "v1"]]
  ELSE IF text = "j2" THEN [ok |-> TRUE, value |-> [t |-> "json", v |-> "v2"]]
  ELSE [ok |-> FALSE, value |-> Undef]

\* Response.json(): reads the body (it is used from then on), then parses
ReadJson(resp) ==
  IF resp.bodyUsed THEN [ok |-> FALSE, value |-> Undef, resp |-> resp]
  ELSE [ok |-> JsonParse(resp.body).ok, value |-> JsonParse(resp.body).value,
        resp |-> [resp EXCEPT !.bodyUsed = resp.hasBody]]

\* endpoint.response.safeParse: the json schema accepts v1 and outputs its
\* parsed form o1, z.string() accepts any string, z.void() accepts undefined
SafeParse(schema, value) ==
  IF schema = "json" /\ value = [t |-> "json", v |-> "v1"]
    THEN [success |-> TRUE, data |-> [t |-> "json", v |-> "o1"]]
  ELSE IF schema = "string" /\ value.t = "text"
    THEN [success |-> TRUE, data |-> value]
  ELSE IF schema = "void" /\ value = Undef
    THEN [success |-> TRUE, data |-> Undef]
  ELSE [success |-> FALSE, data |-> Undef]

NoResult == [kind |-> "none"]
NoThrow == [type |-> "none"]

\* return { error, response }
ErrorResult(error, response) ==
  [kind |-> "error", error |-> error, response |-> response]

DataResultWithError(data, response) ==
  [kind |-> "data", data |-> data, error |-> Undef, response |-> response]

\* return { data, response }
DataResult(data, response) ==
  [kind |-> "data", data |-> data, response |-> response]

\* the input slots (query, param, json, form) of the call's argument: absent,
\* data the endpoint's input schema accepts, data it rejects
InputData == {"none", "valid", "invalid"}

\* the call function returned by callRestEndpoint / callStreamEndpoint is
\* invoked: the endpoint, the client's interceptors, the local transforms
CallStart ==
  /\ call.pc = "idle"
  /\ callsDone < MaxCalls
  /\ \E schema \in ScalarSchemas \cup StreamSchemas, input \in InputData,
        lreq \in LocalTransforms, lresp \in LocalTransforms,
        greq \in SeqsUpTo(Behaviours, MaxGlobal),
        gresp \in SeqsUpTo(Behaviours, MaxGlobal) :
       call' = [pc |-> "prepare", kind |-> EndpointKind(schema), schema |-> schema,
                input |-> input,
                localRequest |-> lreq, localResponse |-> lresp,
                requestCallbacks |-> greq, responseCallbacks |-> gresp,
                options |-> Undef, sent |-> Undef, transport |-> "none",
                fetched |-> Undef, response |-> Undef, decoded |-> Undef,
                log |-> <<>>, result |-> NoResult, thrown |-> NoThrow]
  /\ UNCHANGED <<callsDone, icptVars, treeVars, strmVars, callerVars, prepVars>>

\* the log entries of one runAll: one per registered callback, in order
ManagerLog(side, cbs) == [i \in 1..Len(cbs) |-> <<side, "global", i>>]

\* _prepareFetch: build the options, run the local request transform, then
\* the global request interceptors
BaseOptions == [t |-> "options", marks |-> <<>>, body |-> "none"]

\* the request options built from the call's input: the data is serialised
\* into the URL and the body as it is
BuiltOptions(input) == [BaseOptions EXCEPT !.body = input]

\* options = await localTransformRequest(context, options)
LocalRequestTransform(lreq, options) ==
  IF lreq = "none" THEN options ELSE ApplyCallback(lreq, options)

PrepareFetch ==
  /\ call.pc = "prepare"
  /\ LET afterLocal == LocalRequestTransform(call.localRequest, BuiltOptions(call.input))
         options == RunAllFold(call.requestCallbacks, afterLocal)
     IN call' = [call EXCEPT
           !.pc = "fetch",
           !.options = options,
           !.log = call.log
                   \o (IF call.localRequest = "none" THEN <<>> ELSE << <<"request", "local", 0>> >>)
                   \o ManagerLog("request", call.requestCallbacks)]
  /\ UNCHANGED <<callsDone, icptVars, treeVars, strmVars, callerVars, prepVars>>

\* mutant of ClassifyTransportError: a rejection that is neither the fetch
\* TypeError nor an abort is rethrown as it is
ClassifyTransportErrorRethrow(kind, err) ==
  IF kind = "stream"
    THEN [type |-> "NetworkError", message |-> "", timeout |-> FALSE, class |-> "sse-call"]
  ELSE IF err = "TypeError:fetch"
    THEN [type |-> "NetworkError", message |-> "Network request failed", timeout |-> FALSE, class |-> "errors"]
  ELSE IF err = "AbortError"
    THEN [type |-> "NetworkError", message |-> "Request timeout", timeout |-> TRUE, class |-> "errors"]
  ELSE [type |-> err, message |-> "", timeout |-> FALSE, class |-> "raw"]

\* the catch block around fetchFn(new Request(fullUrl, options)): every
\* rejection is rethrown as a NetworkError
ClassifyTransportError(kind, err) ==
  IF kind = "stream"
    THEN [type |-> "NetworkError", message |-> "", timeout |-> FALSE, class |-> "sse-call"]
  ELSE IF err = "TypeError:fetch"
    THEN [type |-> "NetworkError", message |-> "Network request failed", timeout |-> FALSE, class |-> "errors"]
  ELSE IF err = "AbortError"
    THEN [type |-> "NetworkError", message |-> "Request timeout", timeout |-> TRUE, class |-> "errors"]
  ELSE [type |-> "NetworkError", message |-> "Request failed", timeout |-> FALSE, class |-> "errors"]

TransportReject ==
  /\ call.pc = "fetch"
  /\ \E err \in TransportErrors :
       call' = [call EXCEPT !.pc = "done", !.sent = call.options,
                            !.transport = err,
                            !.thrown = ClassifyTransportError(call.kind, err)]
  /\ callsDone' = callsDone + 1
  /\ UNCHANGED <<icptVars, treeVars, strmVars, callerVars, prepVars>>

TransportResolve ==
  /\ call.pc = "fetch"
  /\ \E resp \in Responses :
       call' = [call EXCEPT !.pc = "intercept", !.sent = call.options,
                            !.transport = "resolved",
                            !.fetched = resp, !.response = resp]
  /\ UNCHANGED <<callsDone, icptVars, treeVars, strmVars, callerVars, prepVars>>

\* the local response transform: callStreamEndpoint keeps the response when
\* the transform returns undefined, callRestEndpoint assigns what it returns
LocalResponseTransform(kind, lresp, resp) ==
  IF lresp = "none" THEN resp
  ELSE LET transformed == ApplyCallback(lresp, resp) IN
         IF kind = "stream"
           THEN (IF transformed # Undef THEN transformed ELSE resp)
           ELSE transformed

ResponseInterceptors ==
  /\ call.pc = "intercept"
  /\ LET afterLocal == LocalResponseTransform(call.kind, call.localResponse, call.response)
     IN call' = [call EXCEPT
           !.pc = "status",
           !.response = RunAllFold(call.responseCallbacks, afterLocal),
           !.log = call.log
                   \o (IF call.localResponse = "none" THEN <<>> ELSE << <<"response", "local", 0>> >>)
                   \o ManagerLog("response", call.responseCallbacks)]
  /\ UNCHANGED <<callsDone, icptVars, treeVars, strmVars, callerVars, prepVars>>

\* response.ok read on undefined: a TypeError leaves the call function
UndefinedResponse ==
  /\ call.pc = "status"
  /\ call.response = Undef
  /\ call' = [call EXCEPT !.pc = "done", !.thrown = [type |-> "TypeError"]]
  /\ callsDone' = callsDone + 1
  /\ UNCHANGED <<icptVars, treeVars, strmVars, callerVars, prepVars>>

\* the body attached to the ApiError of a non-success response
ErrorBody(kind, resp) ==
  LET j == ReadJson(resp) IN
    IF j.ok THEN [body |-> j.value, resp |-> j.resp]
    ELSE IF kind = "stream"
      THEN [body |-> [t |-> "message", v |-> "Failed to parse error body"], resp |-> j.resp]
    ELSE LET x == ReadText(j.resp) IN
      IF x.ok /\ x.value.v # ""
        THEN [body |-> [t |-> "message", v |-> x.value.v], resp |-> x.resp]
        ELSE [body |-> [t |-> "message", v |-> "Unknown error"], resp |-> x.resp]

ApiError(status, message, body) ==
  [type |-> "ApiError", status |-> status, message |-> message, body |-> body]

\* if (!response.ok): return { error: ApiError(status), response }
ErrorResponse ==
  /\ call.pc = "status"
  /\ call.response # Undef
  /\ ~Ok(call.response)
  /\ LET eb == ErrorBody(call.kind, call.response) IN
       call' = [call EXCEPT
         !.pc = "done",
         !.response = eb.resp,
         !.result = ErrorResult(ApiError(call.response.status, "API call failed", eb.body), eb.resp)]
  /\ callsDone' = callsDone + 1
  /\ UNCHANGED <<icptVars, treeVars, strmVars, callerVars, prepVars>>

\* callRestEndpoint: text/* is read as text, 204 is not read, else JSON
DecodeScalar(resp) ==
  IF resp.ctype = "text/plain" THEN ReadText(resp)
  ELSE IF resp.status = 204 THEN [ok |-> TRUE, value |-> Undef, resp |-> resp]
  ELSE ReadJson(resp)

DecodeBody ==
  /\ call.pc = "status"
  /\ call.kind = "rest"
  /\ call.response # Undef
  /\ Ok(call.response)
  /\ LET d == DecodeScalar(call.response) IN
       IF d.ok
         THEN /\ call' = [call EXCEPT !.pc = "validate", !.response = d.resp,
                                      !.decoded = d.value]
              /\ UNCHANGED callsDone
         ELSE /\ call' = [call EXCEPT
                   !.pc = "done", !.response = d.resp,
                   !.result = ErrorResult(ApiError(call.response.status,
                                                  "Failed to parse response as JSON", Undef), d.resp)]
              /\ callsDone' = callsDone + 1
  /\ UNCHANGED <<icptVars, treeVars, strmVars, callerVars, prepVars>>

ValidationError(status, body) ==
  [type |-> "ValidationError", status |-> status,
   message |-> "Response validation failed", body |-> body]

\* what the call returns on a successful validation
ValidatedData(validationResult, jsonResponse) == validationResult.data

\* endpoint.response.safeParse(jsonResponse)
ValidateResponse ==
  /\ call.pc = "validate"
  /\ LET validationResult == SafeParse(call.schema, call.decoded) IN
       call' = [call EXCEPT
         !.pc = "done",
         !.result =
            IF ~validationResult.success
              THEN ErrorResult(ValidationError(call.response.status, call.decoded), call.response)
              ELSE DataResult(ValidatedData(validationResult, call.decoded), call.response)]
  /\ callsDone' = callsDone + 1
  /\ UNCHANGED <<icptVars, treeVars, strmVars, callerVars, prepVars>>

\* callStreamEndpoint on a success response: no body is an ApiError, else the
\* generator matching the stream kind is returned unread
StreamHandOff ==
  /\ call.pc = "status"
  /\ call.kind = "stream"
  /\ call.response # Undef
  /\ Ok(call.response)
  /\ call' = [call EXCEPT
       !.pc = "done",
       !.result =
          IF ~call.response.hasBody
            THEN ErrorResult(ApiError(call.response.status, "Stream response has no body", Undef), call.response)
            ELSE DataResult([t |-> "generator", v |-> call.schema], call.response)]
  /\ callsDone' = callsDone + 1
  /\ UNCHANGED <<icptVars, treeVars, strmVars, callerVars, prepVars>>

\* the promise of a finished call has settled and its frame is gone; the
\* client is ready for the next call
CallSettled ==
  /\ call.pc = "done"
  /\ call' = IdleCall
  /\ UNCHANGED <<callsDone, icptVars, treeVars, strmVars, callerVars, prepVars>>

PipeInit == IcptIdle /\ PipeIdle /\ TreeIdle /\ StrmIdle /\ CallersIdle /\ PrepIdle

PipeNext ==
  \/ CallStart
  \/ PrepareFetch
  \/ TransportReject
  \/ TransportResolve
  \/ ResponseInterceptors
  \/ UndefinedResponse
  \/ ErrorResponse
  \/ DecodeBody
  \/ ValidateResponse
  \/ StreamHandOff
  \/ CallSettled

SpecPipe == PipeInit /\ [][PipeNext]_vars

\* C1: a call whose transport resolved with a non-success status returns
\* {error, response} with an ApiError carrying that status; it does not throw
\* and returns no data.
C1_NonSuccessReturnsApiError ==
  (call.pc = "done" /\ call.transport = "resolved" /\ ~Ok(call.fetched)) =>
    /\ call.thrown = NoThrow
    /\ call.result.kind = "error"
    /\ call.result.error.type = "ApiError"
    /\ call.result.error.status = call.fetched.status

\* C2: a call whose transport rejected, with whatever error value, rejects
\* with a NetworkError and returns no {data} or {error} result.
C2_TransportRejectThrowsNetworkError ==
  (call.pc = "done" /\ call.transport \in TransportErrors) =>
    /\ call.thrown.type = "NetworkError"
    /\ call.result = NoResult

C2_Witness ==
  /\ call.pc = "done"
  /\ call.transport = "nonError"
  /\ call.kind = "rest"
  /\ call.thrown.type = "NetworkError"

\* C3: on a success response of a scalar endpoint whose decoded body fails the
\* response validator the call returns {error: ValidationError, response} and
\* no data; data is returned only when the validator accepts the decoded
\* value and is the validator's output.
C3_ValidationDecidesData ==
  (call.pc = "done" /\ call.kind = "rest" /\ call.transport = "resolved"
     /\ Ok(call.fetched) /\ DecodeScalar(call.fetched).ok) =>
    LET decoded == DecodeScalar(call.fetched).value
        verdict == SafeParse(call.schema, decoded) IN
      /\ call.thrown = NoThrow
      /\ ~verdict.success =>
           /\ call.result.kind = "error"
           /\ call.result.error.type = "ValidationError"
      /\ verdict.success =>
           /\ call.result.kind = "data"
           /\ call.result.data = verdict.data

(***************************************************************************)
(* Path tree: createApiClient, parsePath, buildNode; URL of _prepareFetch   *)
(* Strings are sequences of characters; a multi-letter token such as "get"  *)
(* or "$stream" stands for a word that is never split.                      *)
(***************************************************************************)
\* bounds
MaxEndpoints == 2

\* String.prototype.split(sep) for a one-character separator
RECURSIVE Split(_, _)
Split(str, sep) ==
  IF \A i \in 1..Len(str) : str[i] # sep THEN <<str>>
  ELSE LET i == CHOOSE k \in 1..Len(str) :
                  str[k] = sep /\ \A j \in 1..(k - 1) : str[j] # sep
       IN <<SubSeq(str, 1, i - 1)>> \o Split(SubSeq(str, i + 1, Len(str)), sep)

\* path.replace(/^\/|\/$/g, ''): one leading and one trailing slash go
StripSlashes(path) ==
  LET a == IF path # <<>> /\ Head(path) = "/" THEN Tail(path) ELSE path
  IN IF a # <<>> /\ Last(a) = "/" THEN Front(a) ELSE a

\* parsePath: split on "/", a leading ":" marks a parameter
ParseSegment(segment) ==
  IF segment # <<>> /\ Head(segment) = ":"
    THEN [type |-> "param", name |-> Tail(segment)]
    ELSE [type |-> "resource", name |-> segment]

ParsePath(path) ==
  LET segments == Split(StripSlashes(path), "/")
  IN [i \in 1..Len(segments) |-> ParseSegment(segments[i])]

\* the endpoints a registry is drawn from
Endpoint(method, path, prefix, stream) ==
  [method |-> method, path |-> path, prefix |-> prefix, stream |-> stream]

Methods == {"get", "delete"}
Paths == { <<"/">>,
           <<"/", "u">>,
           <<"/", "u", "/", ":", "a">>,
           <<"/", "u", "/", ":", "a", "/", "p">>,
           <<"/", ":", "a", "/", ":", "b">>,
           <<"/", ":", "a", "/", ":", "a", "b">>,
           <<"/", ":", "a", "/", ":", "a">> }
Catalogue ==
  {Endpoint(m, path, <<>>, FALSE) : m \in Methods, path \in Paths}
  \cup {Endpoint("get", <<"/", "u">>, <<>>, TRUE),
        Endpoint("get", <<"/", "u", "/", ":", "a">>, <<"/", "v">>, FALSE)}

\* the values a caller passes to a parameter function
ParamValues == { <<"7">>, <<"8">>, <<":", "b">>, <<"$", "&">>, <<>> }

\* object keys of the tree
MethodKey(method) == <<method>>
StreamKey == <<"$stream">>
InterceptorsKey == <<"interceptors">>

\* { ...pathParams, [paramKey]: paramValue }: entries in insertion order, an
\* existing key keeps its place and takes the new value
SetParam(pathParams, key, value) ==
  IF \E i \in 1..Len(pathParams) : pathParams[i][1] = key
    THEN [i \in 1..Len(pathParams) |->
            IF pathParams[i][1] = key THEN <<key, value>> ELSE pathParams[i]]
    ELSE Append(pathParams, <<key, value>>)

\* buildNode(segments, endpoint, ..., pathParams): the object it returns has
\* one chain of keys that ends in the terminal call or in the function of the
\* first parameter segment
RECURSIVE BuildNode(_, _, _)
BuildNode(segments, ep, pathParams) ==
  IF segments = <<>>
    THEN [path |-> IF registry[ep].stream
                     THEN <<MethodKey(registry[ep].method), StreamKey>>
                     ELSE <<MethodKey(registry[ep].method)>>,
          leaf |-> [type |-> "call", ep |-> ep, params |-> pathParams]]
  ELSE IF Head(segments).type = "resource"
    THEN LET sub == BuildNode(Tail(segments), ep, pathParams)
         IN [path |-> <<Head(segments).name>> \o sub.path, leaf |-> sub.leaf]
  ELSE [path |-> <<Head(segments).name>>,
        leaf |-> [type |-> "fn", ep |-> ep, rest |-> Tail(segments),
                  params |-> pathParams]]

IsPrefix(p, q) == Len(p) <= Len(q) /\ SubSeq(q, 1, Len(p)) = p

\* deepMerge(target, source) for a source with one chain of keys: objects on
\* both sides merge key by key; where the chain meets a key that holds a
\* function or a call on either side the two cannot be merged and one of
\* them stays, by policy
DeepMerge(target, node, policy) ==
  LET clash == {q \in DOMAIN target : IsPrefix(q, node.path) \/ IsPrefix(node.path, q)}
      keep == IF clash = {} \/ policy = "last"
                THEN (DOMAIN target \ clash) \cup {node.path}
                ELSE DOMAIN target
  IN [q \in keep |-> IF q = node.path /\ (clash = {} \/ policy = "last")
                       THEN node.leaf ELSE target[q]]

\* createApiClient: the registry handed to the constructor
TreeInit ==
  /\ IcptIdle /\ PipeIdle /\ StrmIdle /\ CallersIdle /\ PrepIdle
  /\ registry \in {r \in SeqsUpTo(Catalogue, MaxEndpoints) :
                     \A i, j \in 1..Len(r) : i # j => r[i] # r[j]}
  /\ mergePolicy \in {"first", "last"}
  /\ apiRoot = <<>>
  /\ built = 0
  /\ nav = IdleNav

\* the forEach body: deepMerge(apiRoot, buildNode(segments, endpoint, ...))
MergeEndpoint ==
  /\ built < Len(registry)
  /\ LET ep == built + 1 IN
       apiRoot' = DeepMerge(apiRoot, BuildNode(ParsePath(registry[ep].path), ep, <<>>),
                            mergePolicy)
  /\ built' = built + 1
  /\ UNCHANGED <<registry, nav, mergePolicy, icptVars, pipeVars, strmVars, callerVars, prepVars>>

\* return { ...apiRoot, interceptors }: the interceptors key is set last
ClientReturned == built = Len(registry) + 1

ReturnClient ==
  /\ built = Len(registry)
  /\ apiRoot' =
       LET keep == {q \in DOMAIN apiRoot : ~IsPrefix(<<InterceptorsKey>>, q)}
                     \cup {<<InterceptorsKey>>}
       IN [q \in keep |-> IF q = <<InterceptorsKey>> THEN [type |-> "interceptors"]
                          ELSE apiRoot[q]]
  /\ built' = built + 1
  /\ UNCHANGED <<registry, nav, mergePolicy, icptVars, pipeVars, strmVars, callerVars, prepVars>>

\* buildEndpointPath(path, prefix, baseURL): base, prefix and path joined
\* with single slashes
BaseURL == <<"h", ":", "/", "/", "x">>

NonEmptyPieces(str) ==
  LET pieces == Split(str, "/") IN SelectSeq(pieces, LAMBDA piece : piece # <<>>)

RECURSIVE JoinWithSlashes(_)
JoinWithSlashes(pieces) ==
  IF pieces = <<>> THEN <<>>
  ELSE <<"/">> \o Head(pieces) \o JoinWithSlashes(Tail(pieces))

BuildEndpointPath(path, prefix, baseURL) ==
  baseURL \o JoinWithSlashes(NonEmptyPieces(prefix)) \o JoinWithSlashes(NonEmptyPieces(path))

\* String.prototype.indexOf(pattern): 0 when absent
IndexOfSub(str, pat) ==
  LET hits == {i \in 1..(Len(str) - Len(pat) + 1) : SubSeq(str, i, i + Len(pat) - 1) = pat}
  IN IF hits = {} THEN 0 ELSE CHOOSE i \in hits : \A j \in hits : i <= j

\* GetSubstitution of String.prototype.replace with a string pattern: $$ is a
\* dollar, $& the match, $ backquote the text before it, $ quote the text
\* after it (the two quote characters are written as the tokens "backquote"
\* and "quote")
RECURSIVE GetSubstitution(_, _, _, _)
GetSubstitution(replacement, matched, before, after) ==
  IF replacement = <<>> THEN <<>>
  ELSE IF Len(replacement) >= 2 /\ replacement[1] = "$" /\ replacement[2] \in {"$", "&", "backquote", "quote"}
    THEN (CASE replacement[2] = "$" -> <<"$">>
            [] replacement[2] = "&" -> matched
            [] replacement[2] = "backquote" -> before
            [] OTHER -> after)
         \o GetSubstitution(SubSeq(replacement, 3, Len(replacement)), matched, before, after)
  ELSE <<Head(replacement)>> \o GetSubstitution(Tail(replacement), matched, before, after)

\* str.replace(pattern, replacement): the first occurrence only
StrReplace(str, pattern, replacement) ==
  LET i == IndexOfSub(str, pattern) IN
    IF i = 0 THEN str
    ELSE LET before == SubSeq(str, 1, i - 1)
             after == SubSeq(str, i + Len(pattern), Len(str))
         IN before \o GetSubstitution(replacement, pattern, before, after) \o after

\* for (const [key, value] of Object.entries(pathParams))
\*   fullUrl = fullUrl.replace(`:${key}`, String(value))
RECURSIVE ReplacePathParams(_, _)
ReplacePathParams(fullUrl, pathParams) ==
  IF pathParams = <<>> THEN fullUrl
  ELSE ReplacePathParams(
         StrReplace(fullUrl, <<":">> \o Head(pathParams)[1], Head(pathParams)[2]),
         Tail(pathParams))

\* the URL _prepareFetch hands to the transport (no query string)
FullUrl(endpoint, pathParams) ==
  ReplacePathParams(BuildEndpointPath(endpoint.path, endpoint.prefix, BaseURL), pathParams)

\* a caller starts at the client root to reach the call of endpoint target
NavStart ==
  /\ ClientReturned
  /\ nav.pc \in {"idle", "called", "stuck"}
  /\ \E target \in 1..Len(registry) :
       nav' = [pc |-> "walk", target |-> target,
               segs |-> ParsePath(registry[target].path),
               at |-> [in |-> "root", path |-> <<>>],
               given |-> <<>>, invoked |-> 0, params |-> <<>>, url |-> <<>>]
  /\ UNCHANGED <<registry, apiRoot, built, mergePolicy, icptVars, pipeVars, strmVars, callerVars, prepVars>>

IsObject(path) == \E q \in DOMAIN apiRoot : IsPrefix(path, q) /\ q # path
Stuck == [nav EXCEPT !.pc = "stuck"]

\* property access node[name] for a resource segment
NavResource ==
  /\ nav.pc = "walk"
  /\ nav.segs # <<>>
  /\ Head(nav.segs).type = "resource"
  /\ LET name == Head(nav.segs).name IN
       nav' =
         IF nav.at.in = "root"
           THEN IF IsObject(nav.at.path \o <<name>>)
                  THEN [nav EXCEPT !.segs = Tail(nav.segs),
                                   !.at.path = nav.at.path \o <<name>>]
                  ELSE Stuck
         ELSE IF nav.at.rest # <<>> /\ Head(nav.at.rest) = Head(nav.segs)
           THEN [nav EXCEPT !.segs = Tail(nav.segs), !.at.rest = Tail(nav.at.rest)]
         ELSE Stuck
  /\ UNCHANGED <<registry, apiRoot, built, mergePolicy, icptVars, pipeVars, strmVars, callerVars, prepVars>>

\* call node[name](value) for a parameter segment: the function belongs to
\* one endpoint and returns buildNode of that endpoint's remaining segments
NavParam ==
  /\ nav.pc = "walk"
  /\ nav.segs # <<>>
  /\ Head(nav.segs).type = "param"
  /\ \E value \in ParamValues :
       LET name == Head(nav.segs).name
           key == nav.at.path \o <<name>> IN
       nav' =
         IF nav.at.in = "root"
           THEN IF key \in DOMAIN apiRoot /\ apiRoot[key].type = "fn"
                  THEN [nav EXCEPT
                          !.segs = Tail(nav.segs),
                          !.given = Append(nav.given, value),
                          !.at = [in |-> "closure", ep |-> apiRoot[key].ep,
                                  rest |-> apiRoot[key].rest,
                                  params |-> SetParam(apiRoot[key].params, name, value)]]
                  ELSE Stuck
         ELSE IF nav.at.rest # <<>> /\ Head(nav.at.rest) = Head(nav.segs)
           THEN [nav EXCEPT
                   !.segs = Tail(nav.segs),
                   !.given = Append(nav.given, value),
                   !.at.rest = Tail(nav.at.rest),
                   !.at.params = SetParam(nav.at.params, name, value)]
         ELSE Stuck
  /\ UNCHANGED <<registry, apiRoot, built, mergePolicy, icptVars, pipeVars, strmVars, callerVars, prepVars>>

\* node[method]() or node[method].$stream(): the terminal call runs
\* _prepareFetch with the endpoint and pathParams it closed over
Invoke(ep, pathParams) ==
  [nav EXCEPT !.pc = "called", !.invoked = ep, !.params = pathParams,
              !.url = FullUrl(registry[ep], pathParams)]

NavInvoke ==
  /\ nav.pc = "walk"
  /\ nav.segs = <<>>
  /\ LET target == registry[nav.target]
         key == nav.at.path \o <<MethodKey(target.method)>>
                  \o (IF target.stream THEN <<StreamKey>> ELSE <<>>) IN
       nav' =
         IF nav.at.in = "root"
           THEN IF key \in DOMAIN apiRoot /\ apiRoot[key].type = "call"
                  THEN Invoke(apiRoot[key].ep, apiRoot[key].params)
                  ELSE Stuck
         ELSE IF /\ nav.at.rest = <<>>
                 /\ registry[nav.at.ep].method = target.method
                 /\ registry[nav.at.ep].stream = target.stream
           THEN Invoke(nav.at.ep, nav.at.params)
         ELSE Stuck
  /\ UNCHANGED <<registry, apiRoot, built, mergePolicy, icptVars, pipeVars, strmVars, callerVars, prepVars>>

TreeNext ==
  \/ MergeEndpoint
  \/ ReturnClient
  \/ NavStart
  \/ NavResource
  \/ NavParam
  \/ NavInvoke

SpecTree == TreeInit /\ [][TreeNext]_vars

\* the URL in which every parameter segment of the template holds exactly the
\* value given for that segment, computed segment by segment
RECURSIVE SubstituteSegments(_, _)
SubstituteSegments(segments, given) ==
  IF segments = <<>> THEN <<>>
  ELSE IF Head(segments).type = "param"
    THEN <<"/">> \o Head(given) \o SubstituteSegments(Tail(segments), Tail(given))
  ELSE IF Head(segments).name = <<>>
    THEN SubstituteSegments(Tail(segments), given)
  ELSE <<"/">> \o Head(segments).name \o SubstituteSegments(Tail(segments), given)

ExpectedUrl(endpoint, given) ==
  BaseURL \o JoinWithSlashes(NonEmptyPieces(endpoint.prefix))
          \o SubstituteSegments(ParsePath(endpoint.path), given)

\* C5: the URL passed to the transport is base URL, prefix and template with
\* each :name segment replaced by exactly the value given for that segment
\* and everything else unchanged, for all parameter names and all values.
C5_UrlSubstitutesEachSegment ==
  (nav.pc = "called" /\ nav.invoked = nav.target) =>
    nav.url = ExpectedUrl(registry[nav.target], nav.given)

UniquePathMethod ==
  \A i, j \in 1..Len(registry) :
    i # j => <<registry[i].path, registry[i].method>> # <<registry[j].path, registry[j].method>>

MaxBytes == 4
MaxChunks == 2
MaxBlocks == 2

ByteAlphabet == {"\n", " ", "1", "L", "C"}
Whitespace == {" ", "\n", "\r"}

\* TextDecoder.decode(value, { stream: true }): an incomplete character at
\* the end of a chunk is held back until the next chunk; a malformed sequence
\* decodes to U+FFFD (written "?"), the two-byte character to "e'"
RECURSIVE Decode(_, _)
Decode(held, bytes) ==
  IF bytes = <<>> THEN [text |-> <<>>, held |-> held]
  ELSE LET b == Head(bytes) IN
    IF held
      THEN IF b = "C"
             THEN LET r == Decode(FALSE, Tail(bytes)) IN
                    [text |-> <<"e'">> \o r.text, held |-> r.held]
             ELSE LET r == Decode(FALSE, bytes) IN
                    [text |-> <<"?">> \o r.text, held |-> r.held]
    ELSE IF b = "L" THEN Decode(TRUE, Tail(bytes))
    ELSE LET r == Decode(FALSE, Tail(bytes)) IN
           [text |-> <<(IF b = "C" THEN "?" ELSE b)>> \o r.text, held |-> r.held]

\* String.prototype.trim
RECURSIVE TrimStart(_)
TrimStart(str) ==
  IF str # <<>> /\ Head(str) \in Whitespace THEN TrimStart(Tail(str)) ELSE str

RECURSIVE TrimEnd(_)
TrimEnd(str) ==
  IF str # <<>> /\ Last(str) \in Whitespace THEN TrimEnd(Front(str)) ELSE str

Trim(str) == TrimEnd(TrimStart(str))

\* line.trim().length > 0
NonBlank(line) == Len(Trim(line)) > 0

\* JSON.parse of a line: optional whitespace around one number literal; the
\* only digit is 1, so a literal is a run of 1s (1, 11, ...)
ParseJsonText(text) ==
  LET core == Trim(text) IN
    IF core # <<>> /\ \A i \in 1..Len(core) : core[i] = "1"
      THEN [ok |-> TRUE, value |-> Len(core)]
      ELSE [ok |-> FALSE, value |-> 0]

\* the item / event schema: z.literal(1) -- the number 1 passes, 11 does not
NumberSchema(value) == [success |-> value = 1, data |-> value]

\* yielded chunks
JsonItem(data, raw) == [type |-> "json", data |-> data, raw |-> raw]
ParseErrorChunk(raw) == [type |-> "error", raw |-> raw]
SseEvent(name, data, id, raw) ==
  [type |-> "event", name |-> name, data |-> data, id |-> id, raw |-> raw]
BinaryChunk(data) == [type |-> "binary", data |-> data]

\* one turn of readLines' while loop after reader.read() returned a chunk:
\* buffer += decode(value); lines = buffer.split('\n'); buffer = lines.pop();
\* the non-blank lines are yielded
ReadLinesChunk(buffer, text) ==
  LET lines == Split(buffer \o text, "\n") IN
    [buffer |-> Last(lines), yielded |-> SelectSeq(Front(lines), NonBlank)]

NdjsonLineDropFailures(line) ==
  IF Trim(line) = <<>> THEN <<>>
  ELSE LET parsed == ParseJsonText(line) IN
    IF ~parsed.ok THEN <<>>
    ELSE LET validation == NumberSchema(parsed.value) IN
      IF validation.success THEN <<JsonItem(validation.data, line)>>
      ELSE <<>>

\* ndjsonStreamParser, the body of its for-await loop for one line
NdjsonLine(line) ==
  IF Trim(line) = <<>> THEN <<>>
  ELSE LET parsed == ParseJsonText(line) IN
    IF ~parsed.ok THEN <<ParseErrorChunk(line)>>
    ELSE LET validation == NumberSchema(parsed.value) IN
      IF validation.success THEN <<JsonItem(validation.data, line)>>
      ELSE <<ParseErrorChunk(line)>>

\* dataBuffer.join('\n')
RECURSIVE JoinLines(_)
JoinLines(parts) ==
  IF parts = <<>> THEN <<>>
  ELSE IF Len(parts) = 1 THEN parts[1]
  ELSE parts[1] \o <<"\n">> \o JoinLines(Tail(parts))

\* the endpoint's event schemas: 'message' and 'm' are registered
DefaultEventName == <<"message">>
EventSchemas == {DefaultEventName, <<"m">>}
NoEventId == <<"undefined">>

\* sseStreamParser, the body of its for-await loop for one line.  The
\* fallback `schema instanceof z.ZodString` reads `z`, which the file imports
\* with `import type`: the binding does not exist at run time, so reaching
\* it throws a ReferenceError out of the generator.
SseLine(eventName, dataBuffer, eventId, line) ==
  LET keep == [eventName |-> eventName, dataBuffer |-> dataBuffer,
               eventId |-> eventId, emits |-> <<>>, threw |-> FALSE]
      reset == [keep EXCEPT !.eventName = DefaultEventName,
                            !.dataBuffer = <<>>, !.eventId = NoEventId]
      rawData == JoinLines(dataBuffer)
      parsed == ParseJsonText(rawData)
      validation == NumberSchema(parsed.value)
  IN
    IF line # <<>> /\ Head(line) = ":" THEN keep
    ELSE IF line # <<>> /\ Head(line) = "event:"
      THEN [keep EXCEPT !.eventName = Trim(Tail(line))]
    ELSE IF line # <<>> /\ Head(line) = "data:"
      THEN [keep EXCEPT !.dataBuffer = Append(dataBuffer, Trim(Tail(line)))]
    ELSE IF line # <<>> /\ Head(line) = "id:"
      THEN [keep EXCEPT !.eventId = Trim(Tail(line))]
    ELSE IF line = <<>>
      THEN IF dataBuffer = <<>> THEN keep
           ELSE IF eventName \notin EventSchemas
             THEN [reset EXCEPT !.emits = <<ParseErrorChunk(rawData)>>]
           ELSE IF ~parsed.ok THEN [keep EXCEPT !.threw = TRUE]
           ELSE IF validation.success
             THEN [reset EXCEPT !.emits =
                     <<SseEvent(eventName, validation.data, eventId, rawData)>>]
           ELSE [reset EXCEPT !.emits = <<ParseErrorChunk(rawData)>>]
    ELSE keep

\* callSSEEndpoint, the body of `for (const line of lines)`: a line that
\* starts with 'data: ' is parsed and offered to the event schemas in turn
CallSSELine(line) ==
  IF Len(line) >= 2 /\ line[1] = "data:" /\ line[2] = " "
    THEN LET parsed == ParseJsonText(SubSeq(line, 3, Len(line))) IN
      IF ~parsed.ok THEN <<[type |-> "onError", raw |-> line]>>
      ELSE LET result == NumberSchema(parsed.value) IN
        IF result.success THEN <<[type |-> "onMessage", data |-> result.data]>>
        ELSE <<>>
  ELSE <<>>

\* callSSEEndpoint, one turn of its while loop after reader.read() returned
\* a chunk: chunk = decode(value); lines = chunk.split('\n'); every piece
\* is handled, nothing is carried over to the next chunk
CallSSEChunk(text) ==
  LET lines == Split(text, "\n") IN
    [lines |-> lines,
     messages |-> Flatten([i \in 1..Len(lines) |-> CallSSELine(lines[i])])]

\* bodies: every byte text up to MaxBytes, and SSE streams of up to
\* MaxBlocks event blocks
GenericTexts == SeqsUpTo(ByteAlphabet, MaxBytes)
Blocks ==
  { <<"data:", " ", "1", "\n", "\n">>,
    <<"event:", "m", "\n", "id:", "7", "\n", "data:", " ", "1", "\n", "\n">>,
    <<"event:", " ", "u", "\n", "data:", " ", "1", "\n", "\n">>,
    <<"data:", " ", "1", "1", "\n", "\n">>,
    <<"data:", " ", "1", "\n", "data:", "1", "\n", "\n">> }
SseStreams == {Flatten(bs) : bs \in SeqsUpTo(Blocks, MaxBlocks)}

\* the ways the transport may cut a body into at most n non-empty chunks
RECURSIVE Chunkings(_, _)
Chunkings(bytes, n) ==
  IF bytes = <<>> THEN {<<>>}
  ELSE IF n = 0 THEN {}
  ELSE UNION {{<<SubSeq(bytes, 1, k)>> \o rest :
                 rest \in Chunkings(SubSeq(bytes, k + 1, Len(bytes)), n - 1)} :
              k \in 1..Len(bytes)}

StreamKinds == {"ndjson", "sse", "binary", "callSSE"}
BodiesOf(kind) ==
  IF kind \in {"sse", "callSSE"} THEN GenericTexts \cup SseStreams ELSE GenericTexts

\* a decoder over one response body, before its first step
NewStream(kind, input, chunking) ==
  [pc |-> "start", kind |-> kind, input |-> input, chunking |-> chunking,
   chunks |-> chunking, held |-> FALSE, buffer |-> <<>>, pending |-> <<>>,
   final |-> FALSE, locked |-> FALSE, acquired |-> FALSE,
   eventName |-> DefaultEventName, dataBuffer |-> <<>>, eventId |-> NoEventId,
   out |-> <<>>, lines |-> <<>>, ended |-> "none"]

UsesReadLines(kind) == kind \in {"ndjson", "sse"}

FinallyNoRelease(s, how) ==
  [s EXCEPT !.pc = "closed", !.locked = (how = "return"), !.ended = how]

\* `finally { reader.releaseLock() }` of readLines, binaryStreamParser and
\* callSSEEndpoint: runs however the loop is left
Finally(s, how) ==
  [s EXCEPT !.pc = "closed", !.locked = FALSE, !.ended = how]

\* where readLines goes on after a yield: the next line of the for loop, the
\* `break` after the final flush, or the next reader.read()
Continue(s) ==
  IF s.pending # <<>> THEN [s EXCEPT !.pc = "yield"]
  ELSE IF s.final THEN Finally(s, "end")
  ELSE [s EXCEPT !.pc = "read"]

\* stream.getReader() / response.body.getReader()
StreamOpen ==
  /\ strm.pc = "start"
  /\ strm' = [strm EXCEPT !.pc = "read", !.locked = TRUE, !.acquired = TRUE]
  /\ UNCHANGED <<icptVars, pipeVars, treeVars, callerVars, prepVars>>

\* reader.read() resolves with { done: false, value }
ReadChunk ==
  /\ strm.pc = "read"
  /\ strm.chunks # <<>>
  /\ LET value == Head(strm.chunks)
         decoded == Decode(strm.held, value)
         rest == [strm EXCEPT !.chunks = Tail(strm.chunks)]
     IN
       IF UsesReadLines(strm.kind)
         THEN LET r == ReadLinesChunk(strm.buffer, decoded.text) IN
           strm' = Continue([rest EXCEPT !.held = decoded.held,
                                         !.buffer = r.buffer,
                                         !.pending = r.yielded])
       ELSE IF strm.kind = "binary"
         THEN strm' = [rest EXCEPT !.out = Append(strm.out, BinaryChunk(value)),
                                   !.pc = "consumer"]
       ELSE LET r == CallSSEChunk(decoded.text) IN
           strm' = [rest EXCEPT !.held = decoded.held,
                                !.lines = strm.lines \o r.lines,
                                !.out = strm.out \o r.messages]
  /\ UNCHANGED <<icptVars, pipeVars, treeVars, callerVars, prepVars>>

\* reader.read() resolves with { done: true }: readLines flushes a
\* non-empty buffer as the last line, the other loops break
ReadDone ==
  /\ strm.pc = "read"
  /\ strm.chunks = <<>>
  /\ strm' = IF UsesReadLines(strm.kind) /\ Len(strm.buffer) > 0
               THEN [strm EXCEPT !.pc = "yield", !.pending = <<strm.buffer>>,
                                 !.final = TRUE]
               ELSE Finally(strm, "end")
  /\ UNCHANGED <<icptVars, pipeVars, treeVars, callerVars, prepVars>>

\* reader.read() rejects: the exception leaves the loop through finally
ReadError ==
  /\ strm.pc = "read"
  /\ strm' = Finally(strm, "error")
  /\ UNCHANGED <<icptVars, pipeVars, treeVars, callerVars, prepVars>>

\* readLines yields a line and the parser's loop body handles it; a chunk
\* the parser yields in turn hands control to the consumer
YieldLine ==
  /\ strm.pc = "yield"
  /\ LET line == Head(strm.pending)
         rest == [strm EXCEPT !.pending = Tail(strm.pending),
                              !.lines = Append(strm.lines, line)]
     IN
       IF strm.kind = "ndjson"
         THEN LET emits == NdjsonLine(line) IN
           strm' = IF emits = <<>> THEN Continue(rest)
                   ELSE [rest EXCEPT !.out = strm.out \o emits, !.pc = "consumer"]
       ELSE LET r == SseLine(strm.eventName, strm.dataBuffer, strm.eventId, line)
                upd == [rest EXCEPT !.eventName = r.eventName,
                                    !.dataBuffer = r.dataBuffer,
                                    !.eventId = r.eventId]
            IN strm' = IF r.threw THEN Finally(upd, "error")
                       ELSE IF r.emits = <<>> THEN Continue(upd)
                       ELSE [upd EXCEPT !.out = strm.out \o r.emits,
                                        !.pc = "consumer"]
  /\ UNCHANGED <<icptVars, pipeVars, treeVars, callerVars, prepVars>>

\* the consumer asks for the next chunk: the generators resume after their
\* yield
ConsumerNext ==
  /\ strm.pc = "consumer"
  /\ strm' = Continue(strm)
  /\ UNCHANGED <<icptVars, pipeVars, treeVars, callerVars, prepVars>>

\* the consumer stops early (break out of for-await, generator.return()):
\* the suspended generators run their finally blocks
ConsumerReturn ==
  /\ strm.pc = "consumer"
  /\ strm' = Finally(strm, "return")
  /\ UNCHANGED <<icptVars, pipeVars, treeVars, callerVars, prepVars>>

StrmInit ==
  /\ IcptIdle /\ PipeIdle /\ TreeIdle /\ CallersIdle /\ PrepIdle
  /\ \E kind \in StreamKinds : \E input \in BodiesOf(kind) :
       \E chunking \in Chunkings(input, MaxChunks) :
         strm = NewStream(kind, input, chunking)

StrmNext ==
  \/ StreamOpen
  \/ ReadChunk
  \/ ReadDone
  \/ ReadError
  \/ YieldLine
  \/ ConsumerNext
  \/ ConsumerReturn

SpecStrm == StrmInit /\ [][StrmNext]_vars

\* the text of a body and its non-blank lines
BodyText(input) == Decode(FALSE, input).text
NonBlankLines(input) == SelectSeq(Split(BodyText(input), "\n"), NonBlank)

IsPrefixOf(a, b) == Len(a) <= Len(b) /\ SubSeq(b, 1, Len(a)) = a

\* blocks whose event name is registered and whose data passes the schema,
\* with the Event chunk each one describes
ValidBlocks ==
  { <<"data:", " ", "1", "\n", "\n">>,
    <<"event:", "m", "\n", "id:", "7", "\n", "data:", " ", "1", "\n", "\n">> }
EventOfBlock(block) ==
  IF Head(block) = "event:"
    THEN SseEvent(<<"m">>, 1, <<"7">>, <<"1">>)
    ELSE SseEvent(DefaultEventName, 1, NoEventId, <<"1">>)

\* C7: an SSE stream of k blocks (optional event: and id: lines, a data:
\* line, a blank line), every block with a registered name and valid data,
\* makes the SSE decoder yield exactly the k Event chunks of its blocks, in
\* stream order, and then end.
C7_SseYieldsOneEventPerBlock ==
  \A bs \in SeqsUpTo(ValidBlocks, MaxBlocks) :
    (strm.pc = "closed" /\ strm.kind = "sse" /\ strm.ended = "end"
       /\ strm.input = Flatten(bs))
      => strm.out = [i \in 1..Len(bs) |-> EventOfBlock(bs[i])]

\* the chunk the NDJSON decoder owes for one non-blank line
ChunkOwedFor(line) ==
  LET parsed == ParseJsonText(line) IN
    IF parsed.ok /\ parsed.value = 1 THEN JsonItem(1, line)
    ELSE ParseErrorChunk(line)
ExpectedNdjson(input) ==
  LET ls == NonBlankLines(input) IN [i \in 1..Len(ls) |-> ChunkOwedFor(ls[i])]

\* C8: the NDJSON decoder yields one chunk per non-blank line, in line
\* order -- a JsonItem with the validated value when the line parses and
\* passes the schema, a ParseError with the raw line otherwise; while it runs
\* its output is a prefix of that list (a failing line does not stop it or
\* hide later lines), and when the stream ends it has yielded all of it.
C8_NdjsonOneChunkPerLine ==
  (strm.pc # "idle" /\ strm.kind = "ndjson") =>
    /\ IsPrefixOf(strm.out, ExpectedNdjson(strm.input))
    /\ strm.pc = "yield" => strm.pending # <<>>
    /\ strm.ended = "end" =>
         /\ strm.out = ExpectedNdjson(strm.input)
         /\ strm.pc = "closed" /\ strm.chunks = <<>>

\* C8 witness: a body cut in two chunks has ended after a ParseError chunk
\* was followed by a JsonItem chunk
C8_Witness ==
  /\ strm.pc = "closed" /\ strm.kind = "ndjson" /\ strm.ended = "end"
  /\ Len(strm.chunking) = 2
  /\ \E i \in 1..Len(strm.out) : \E j \in (i + 1)..Len(strm.out) :
       strm.out[i].type = "error" /\ strm.out[j].type = "json"

\* C9: however the body is cut into chunks, the lines the line reader hands
\* on are the lines of the whole body (the lines of a single-chunk delivery);
\* blank lines are left out of the comparison.
C9_LinesIndependentOfChunking ==
  (strm.pc = "closed" /\ strm.ended = "end" /\ strm.kind # "binary")
    => SelectSeq(strm.lines, NonBlank) = NonBlankLines(strm.input)

\* C10: once a decoder has acquired the reader, the lock is held only while
\* iteration is under way: when iteration has ended -- by stream end, by a
\* read error or by the consumer stopping early -- the lock is released.
C10_LockReleasedWhenIterationEnds ==
  (strm.pc # "idle" /\ strm.acquired) =>
    /\ strm.ended # "none" => ~strm.locked
    /\ strm.pc = "closed" <=> strm.ended # "none"
    /\ strm.locked => strm.pc \in {"read", "yield", "consumer"}

\* C10 witness: the consumer stopped a decoder early, with chunks still
\* unread, and the lock is released
C10_Witness ==
  /\ strm.pc = "closed" /\ strm.acquired /\ strm.ended = "return"
  /\ strm.chunks # <<>> /\ ~strm.locked

(***************************************************************************)
(* Further properties of the call pipeline                                 *)
(***************************************************************************)
\* C11: a call that returns (does not throw) returns a value that holds a
\* response and exactly one of the fields data and error; a call that throws
\* returns nothing.
C11_ResultIsDataXorError ==
  call.pc = "done" =>
    IF call.thrown = NoThrow
      THEN /\ "response" \in DOMAIN call.result
           /\ call.result.response # Undef
           /\ call.result.response.t = "response"
           /\ ("data" \in DOMAIN call.result) # ("error" \in DOMAIN call.result)
      ELSE call.result = NoResult

\* C11 witness: a scalar call returned data whose value is undefined (a 204
\* answer to a void endpoint): the data field is present, error is not
C11_Witness ==
  /\ call.pc = "done" /\ call.thrown = NoThrow /\ call.kind = "rest"
  /\ "data" \in DOMAIN call.result /\ "error" \notin DOMAIN call.result
  /\ call.result.data = Undef

\* how the body of the answered call was decoded, read off the call's state
ParseFailure ==
  /\ call.result.kind = "error"
  /\ call.result.error.type = "ApiError"
  /\ call.result.error.message = "Failed to parse response as JSON"
ReadAsText == call.decoded.t = "text"
ReadAsJson == call.decoded.t = "json" \/ ParseFailure
NotRead == call.decoded = Undef /\ ~call.response.bodyUsed /\ ~ParseFailure

\* C12: on a success response of a scalar endpoint the body is read as text
\* when the content type is text/* or the schema is string-shaped, is not
\* read (the decoded value is undefined) when the status is 204 or the
\* schema is void-shaped, and is parsed as JSON otherwise.  Responses for
\* which both the text rule and the no-content rule apply are left open.
C12_DecodeByShape ==
  (call.pc = "done" /\ call.kind = "rest" /\ call.transport = "resolved"
     /\ Ok(call.fetched) /\ call.thrown = NoThrow) =>
    LET textual == call.fetched.ctype = "text/plain" \/ call.schema = "string"
        empty == call.fetched.status = 204 \/ call.schema = "void"
    IN /\ (textual /\ ~empty) => ReadAsText
       /\ (empty /\ ~textual) => NotRead
       /\ (~textual /\ ~empty) => ReadAsJson

\* the invocations of one side recorded in the call's log, in order
SideLog(side) == SelectSeq(call.log, LAMBDA e : e[1] = side)

\* what a transform hands on: its result, or its argument when it returns
\* nothing
EffectiveOutput(t, arg) ==
  IF t = "none" \/ ApplyCallback(t, arg) = Undef THEN arg ELSE ApplyCallback(t, arg)

\* the invocations owed on one side: the local transform once, then every
\* callback of the global manager in registration order
OwedLog(side, local, cbs) ==
  (IF local = "none" THEN <<>> ELSE << <<side, "local", 0>> >>) \o ManagerLog(side, cbs)

\* C13: a local request (response) transform runs exactly once and before
\* every callback of the global request (response) manager, the client-level
\* transform registered at construction included, and the global chain starts
\* from what the local transform handed on.
C13_LocalBeforeGlobal ==
  /\ call.pc \in {"fetch", "intercept", "status", "validate", "done"} =>
       /\ SideLog("request") = OwedLog("request", call.localRequest, call.requestCallbacks)
       /\ call.options = RunAllFold(call.requestCallbacks,
                                    EffectiveOutput(call.localRequest, BuiltOptions(call.input)))
  /\ (call.pc \in {"status", "validate"}
        \/ (call.pc = "done" /\ call.transport = "resolved")) =>
       /\ SideLog("response") = OwedLog("response", call.localResponse, call.responseCallbacks)
       /\ call.response # Undef
       /\ [call.response EXCEPT !.bodyUsed = FALSE]
            = RunAllFold(call.responseCallbacks,
                         EffectiveOutput(call.localResponse, call.fetched))

(***************************************************************************)
(* Further properties of InterceptorManager                                *)
(***************************************************************************)
\* the registrations whose remover has not been invoked, in registration
\* order
LiveRegistrations ==
  LET live == SelectSeq(removers, LAMBDA reg : ~reg.invoked)
  IN [i \in 1..Len(live) |-> live[i].callback]

\* C14: a remover removes the registration it was returned for and nothing
\* else, however often it is invoked and also when its callback function is
\* registered more than once: the callback list is always the list of the
\* registrations whose remover was never invoked, in registration order.
C14_RemoverIdempotent == callbacks = LiveRegistrations

\* C15: a call whose transport rejects with an abort error, on a scalar or a
\* streaming endpoint, throws a NetworkError whose timeout flag is true.
C15_AbortIsTimeout ==
  (call.pc = "done" /\ call.transport = "AbortError") =>
    /\ call.thrown.type = "NetworkError"
    /\ call.thrown.timeout = TRUE

(***************************************************************************)
(* Further properties of the streaming decoders                            *)
(***************************************************************************)
\* a block whose event name is not in the schema map, and the chunk owed for
\* each block of a stream
UnregisteredBlock == <<"event:", " ", "u", "\n", "data:", " ", "1", "\n", "\n">>
ChunkOfBlock(block) ==
  IF block = UnregisteredBlock THEN ParseErrorChunk(<<"1">>) ELSE EventOfBlock(block)

\* C16: an SSE stream with a block whose event name is not registered makes
\* the decoder yield exactly one ParseError chunk for that block, in its
\* place among the Event chunks of the blocks before and after it.
C16_UnknownEventIsOneParseError ==
  \A bs \in SeqsUpTo(ValidBlocks \cup {UnregisteredBlock}, MaxBlocks) :
    (strm.pc = "closed" /\ strm.kind = "sse" /\ strm.ended = "end"
       /\ strm.input = Flatten(bs)
       /\ \E i \in 1..Len(bs) : bs[i] = UnregisteredBlock)
      => strm.out = [i \in 1..Len(bs) |-> ChunkOfBlock(bs[i])]

(***************************************************************************)
(* Further properties of the path tree                                     *)
(***************************************************************************)
\* the URL handed to the transport without the base URL
AfterBase(url) == SubSeq(url, Len(BaseURL) + 1, Len(url))

\* the values given on the way hold neither a colon nor a replacement pattern
PlainValues(given) ==
  \A i \in 1..Len(given) : \A j \in 1..Len(given[i]) : given[i][j] \notin {":", "$"}

\* C17: the transport never receives a URL in which a `:name` token of the
\* template is left unsubstituted.  With values that hold no colon (and no
\* replacement pattern that could bring one back) every colon after the base
\* URL is such a token.
C17_NoUnsubstitutedToken ==
  (nav.pc = "called" /\ PlainValues(nav.given)) =>
    \A i \in 1..Len(AfterBase(nav.url)) : AfterBase(nav.url)[i] # ":"

\* C18: an endpoint whose path template is "/" is exposed directly on the
\* client root: the root holds the endpoint's method key, and under it the
\* call (or its $stream call), with no key in between.
C18_RootPathAtTopLevel ==
  ClientReturned =>
    \A e \in 1..Len(registry) :
      registry[e].path = <<"/">> =>
        \E q \in DOMAIN apiRoot :
          /\ q = <<MethodKey(registry[e].method)>>
                   \o (IF registry[e].stream THEN <<StreamKey>> ELSE <<>>)
          /\ apiRoot[q].type = "call"

(***************************************************************************)
(* Further properties of the call pipeline: inputs and decoding            *)
(***************************************************************************)
\* C19: a call given input data that fails the endpoint's input schema fails
\* with a ValidationError and never reaches the transport.
C19_InvalidInputNeverSent ==
  (call.pc # "idle" /\ call.input = "invalid") =>
    /\ call.transport = "none"
    /\ call.pc \notin {"fetch", "intercept", "status", "validate"}
    /\ call.pc = "done" => call.thrown.type = "ValidationError"

\* C20: a success response of a scalar endpoint whose body cannot be decoded
\* makes the call return {error: ApiError, response} with the response's
\* status; the call does not throw and the validator is not run.
C20_DecodeFailureIsApiError ==
  (call.pc = "done" /\ call.kind = "rest" /\ call.transport = "resolved"
     /\ Ok(call.fetched) /\ ~DecodeScalar(call.fetched).ok) =>
    /\ call.thrown = NoThrow
    /\ call.result.kind = "error"
    /\ call.result.error.type = "ApiError"
    /\ call.result.error.status = call.fetched.status
    /\ call.result.response # Undef
    /\ call.decoded = Undef

(***************************************************************************)
(* Concurrent callers of one client: subtrees obtained from parameter      *)
(* functions, and the calls made through them                              *)
(***************************************************************************)
\* bounds
MaxCallers == 2

\* the endpoint the callers share, GET /:a/:b, and the values they pass
CallerEndpoint == Endpoint("get", <<"/", ":", "a", "/", ":", "b">>, <<>>, FALSE)
CallerValues == {<<"7">>, <<"8">>}

\* the param function's `const newParams = { ...pathParams, [paramKey]:
\* paramValue }`: a new object; the object closed over is left as it was.
\* Returns the heap after the call and the object the returned node closes over
NewParamsInPlace(objects, pathParams, paramKey, paramValue) ==
  [heap |-> [objects EXCEPT ![pathParams] = SetParam(@, paramKey, paramValue)],
   params |-> pathParams]

NewParams(objects, pathParams, paramKey, paramValue) ==
  [heap |-> Append(objects, SetParam(objects[pathParams], paramKey, paramValue)),
   params |-> Len(objects) + 1]

\* a caller that holds the client root: buildNode's default `pathParams = {}`
\* is object 1
AtRoot ==
  [pc |-> "tree", params |-> 1, rest |-> ParsePath(CallerEndpoint.path),
   given |-> <<>>, url |-> <<>>, context |-> Undef, sent |-> <<>>]

CallersInit ==
  /\ IcptIdle /\ PipeIdle /\ TreeIdle /\ StrmIdle /\ PrepIdle
  /\ heap = << <<>> >>
  /\ callers = [c \in 1..MaxCallers |-> AtRoot]

\* node[paramKey](paramValue): the caller calls the parameter function of
\* the node it holds and keeps the node it returns
ParamCall(c) ==
  /\ callers[c].pc = "tree"
  /\ callers[c].rest # <<>>
  /\ Head(callers[c].rest).type = "param"
  /\ \E paramValue \in CallerValues :
       LET paramKey == Head(callers[c].rest).name
           new == NewParams(heap, callers[c].params, paramKey, paramValue) IN
       /\ heap' = new.heap
       /\ callers' = [callers EXCEPT
            ![c].params = new.params,
            ![c].rest = Tail(callers[c].rest),
            ![c].given = Append(callers[c].given, <<paramKey, paramValue>>)]
  /\ UNCHANGED <<icptVars, pipeVars, treeVars, strmVars, prepVars>>

\* `const x = client.a(v)` used by two callers: caller c continues from the
\* node another caller holds
ShareNode(c, d) ==
  /\ c # d
  /\ callers[c] = AtRoot
  /\ callers[d].pc = "tree"
  /\ callers[d].given # <<>>
  /\ callers' = [callers EXCEPT
       ![c].params = callers[d].params,
       ![c].rest = callers[d].rest,
       ![c].given = callers[d].given]
  /\ UNCHANGED <<heap, icptVars, pipeVars, treeVars, strmVars, prepVars>>

\* the terminal call up to its first await: _prepareFetch reads the
\* pathParams object the call closes over, builds fullUrl and a new
\* CallContext, then awaits the request interceptors
CallPrepare(c) ==
  /\ callers[c].pc = "tree"
  /\ callers[c].rest = <<>>
  /\ LET fullUrl == FullUrl(CallerEndpoint, heap[callers[c].params]) IN
       callers' = [callers EXCEPT
         ![c].pc = "prepared",
         ![c].url = fullUrl,
         ![c].context = [method |-> CallerEndpoint.method, path |-> fullUrl]]
  /\ UNCHANGED <<heap, icptVars, pipeVars, treeVars, strmVars, prepVars>>

\* after the await: fetch(fullUrl, options)
CallFetch(c) ==
  /\ callers[c].pc = "prepared"
  /\ callers' = [callers EXCEPT ![c].pc = "sent", ![c].sent = callers[c].url]
  /\ UNCHANGED <<heap, icptVars, pipeVars, treeVars, strmVars, prepVars>>

CallersNext ==
  \/ \E c \in 1..MaxCallers : ParamCall(c)
  \/ \E c, d \in 1..MaxCallers : ShareNode(c, d)
  \/ \E c \in 1..MaxCallers : CallPrepare(c)
  \/ \E c \in 1..MaxCallers : CallFetch(c)

SpecCallers == CallersInit /\ [][CallersNext]_vars

\* the URL a caller is owed: base URL, then each value it passed, in order
RECURSIVE OwnValues(_)
OwnValues(given) ==
  IF given = <<>> THEN <<>> ELSE <<"/">> \o Head(given)[2] \o OwnValues(Tail(given))

\* C21: in every interleaving of callers that obtain subtrees with their own
\* values and call through them, the object a caller's node closes over
\* holds exactly the values that caller passed, and the URL handed to the
\* transport and the path of the CallContext are built from those values only
C21_CallsAreIndependent ==
  \A c \in DOMAIN callers :
    /\ heap[callers[c].params] = callers[c].given
    /\ callers[c].pc \in {"prepared", "sent"} =>
         /\ callers[c].url = BaseURL \o OwnValues(callers[c].given)
         /\ callers[c].context.path = callers[c].url
    /\ callers[c].pc = "sent" => callers[c].sent = BaseURL \o OwnValues(callers[c].given)

\* two calls in flight at once through subtrees of the same parameter
\* function, obtained with different values
C21_Witness ==
  /\ callers # <<>>
  /\ \E c, d \in DOMAIN callers :
       /\ callers[c].pc = "prepared" /\ callers[d].pc = "sent"
       /\ callers[c].given[1][2] # callers[d].given[1][2]

\* C22: a runAll that starts after add/use and removers have returned (and
\* whose list is not touched while it runs) invokes exactly the
\* registrations whose remover has not been invoked, each after all earlier
\* registrations: no removed registration is invoked, no live one is missed.
C22_TakesEffectOnNextRun ==
  (run.pc \in {"loop", "await"} /\ ~run.mutated) =>
    /\ Len(run.calls) <= Len(LiveRegistrations)
    /\ \A i \in 1..Len(run.calls) : run.calls[i].cb = LiveRegistrations[i]
    /\ (run.pc = "loop" /\ run.idx > Len(callbacks)) =>
         Len(run.calls) = Len(LiveRegistrations)

(***************************************************************************)
(* The mock server as the client's transport                               *)
(***************************************************************************)
\* what fake(endpoint.response) may return: a value the schema accepts
FakeValues(schema) ==
  IF schema = "json" THEN {[t |-> "json", v |-> "v1"]}
  ELSE IF schema = "string" THEN {[t |-> "text", v |-> b] : b \in Bodies}
  ELSE {Undef}

\* JSON.stringify of a value of the json schema
JsonStringify(value) == IF value.v = "v1" THEN "j1" ELSE "j2"

\* createMockServer's handler: c.text for a string schema, c.body(null) for
\* a void schema, c.json otherwise; each with the default status 200
MockServerResponse(schema, mockData) ==
  IF schema = "string"
    THEN [t |-> "response", status |-> 200, ctype |-> "text/plain",
          body |-> mockData.v, hasBody |-> TRUE, bodyUsed |-> FALSE, marks |-> <<>>]
  ELSE IF schema = "void"
    THEN [t |-> "response", status |-> 200, ctype |-> "none",
          body |-> "", hasBody |-> FALSE, bodyUsed |-> FALSE, marks |-> <<>>]
  ELSE [t |-> "response", status |-> 200, ctype |-> "application/json",
        body |-> JsonStringify(mockData), hasBody |-> TRUE, bodyUsed |-> FALSE,
        marks |-> <<>>]

\* the call was answered by the mock server with mockData and no transform
\* replaced the response
AnsweredByMock(mockData) ==
  /\ call.pc = "done" /\ call.kind = "rest" /\ call.transport = "resolved"
  /\ call.fetched = MockServerResponse(call.schema, mockData)
  /\ call.response # Undef
  /\ [call.response EXCEPT !.bodyUsed = FALSE] = call.fetched

\* C23: a scalar call whose transport is the mock server, answering with a
\* value valid for the response schema, returns {data} holding that value as
\* the schema parses it (undefined for a void schema) and no error.
C23_MockServerRoundTrip ==
  call.pc = "done" =>
    \A mockData \in FakeValues(call.schema) :
      AnsweredByMock(mockData) =>
        /\ call.result.kind = "data"
        /\ call.result.data = SafeParse(call.schema, mockData).data

(***************************************************************************)
(* Request preparation: the headers, options and body _prepareFetch builds *)
(* and the Request the transport is called with                            *)
(***************************************************************************)
\* header names as written by the caller, and as a Request compares them
HeaderNames == {"Content-Type", "content-type", "X-Id", "Accept"}
Lower(name) ==
  IF name = "Content-Type" THEN "content-type"
  ELSE IF name = "Accept" THEN "accept"
  ELSE IF name = "X-Id" THEN "x-id"
  ELSE name
LowerNames == {Lower(name) : name \in HeaderNames}

\* a HeadersInit: absent, a plain record, or a Headers instance; the entries
\* are <<name, value>> pairs in insertion order
NoHeaders == [kind |-> "undefined", entries |-> <<>>]
ClientHeaderInputs ==
  {NoHeaders} \cup
  {[kind |-> k, entries |-> << <<name, "c">> >>] :
      k \in {"record", "Headers"}, name \in HeaderNames}
CallHeaderInputs ==
  {NoHeaders} \cup
  {[kind |-> "record", entries |-> << <<name, "p">> >>] : name \in HeaderNames}

\* the own enumerable properties an object spread copies: those of a plain
\* record; undefined and a Headers instance have none
OwnEnumerable(init) == IF init.kind = "record" THEN init.entries ELSE <<>>

\* { ...target, ...source }: an existing key keeps its place and takes the
\* new value, a new key is added at the end
RECURSIVE ObjectSpread(_, _)
ObjectSpread(target, entries) ==
  IF entries = <<>> THEN target
  ELSE ObjectSpread(SetParam(target, Head(entries)[1], Head(entries)[2]), Tail(entries))

\* delete obj[key]
DeleteKey(obj, key) == SelectSeq(obj, LAMBDA e : e[1] # key)

\* the inputs of one call: the endpoint, the client-level requestOptions and
\* the per-call arguments
PrepInputs ==
  [method : {"get", "post"},
   response : {"scalar", "sse"},
   clientHeaders : ClientHeaderInputs,
   clientSignal : {"undefined", "S1"},
   credentials : {"undefined", "include"},
   callHeaders : CallHeaderInputs,
   callSignal : {"undefined", "S2"},
   data : {"none", "json", "form", "both"}]

\* const headers = { 'Content-Type': 'application/json',
\* ...requestOptions.headers, ...customHeaders }, then Accept for a stream
LayerHeaders(in) ==
  LET layered ==
        ObjectSpread(
          ObjectSpread(<< <<"Content-Type", "application/json">> >>,
                       OwnEnumerable(in.clientHeaders)),
          OwnEnumerable(in.callHeaders))
  IN IF in.response = "sse" THEN SetParam(layered, "Accept", "text/event-stream")
     ELSE layered

\* the client-level requestOptions as createApiClient keeps them
RequestOptions(in) ==
  [headers |-> in.clientHeaders.entries, signal |-> in.clientSignal,
   credentials |-> in.credentials, method |-> "undefined", body |-> "undefined"]

ToUpperCase(method) == IF method = "get" THEN "GET" ELSE "POST"

\* let options = { ...requestOptions, method, headers, signal }
SpreadOptions(requestOptions, method, headers, signal) ==
  [requestOptions EXCEPT !.method = method, !.headers = headers, !.signal = signal]

\* the body: json before form, neither for GET; a form body deletes the
\* 'Content-Type' key of the headers object the options refer to
WithBody(in, options) ==
  IF in.method # "get" /\ in.data \in {"json", "both"}
    THEN [options EXCEPT !.body = "json"]
  ELSE IF in.method # "get" /\ in.data = "form"
    THEN [options EXCEPT !.body = "formdata",
                         !.headers = DeleteKey(options.headers, "Content-Type")]
  ELSE options

\* the options _prepareFetch hands to the request interceptors
PreparedOptions(in) ==
  WithBody(in, SpreadOptions(RequestOptions(in), ToUpperCase(in.method),
                             LayerHeaders(in), in.callSignal))

\* new Request(fullUrl, options): header names compare without case, values
\* under one name are combined in order; a FormData body with no content
\* type gets the multipart one
CombinedValues(headers, name) ==
  LET same == SelectSeq(headers, LAMBDA e : Lower(e[1]) = name)
  IN [i \in 1..Len(same) |-> same[i][2]]

NewRequest(options) ==
  [method |-> options.method,
   headers |-> [name \in LowerNames |->
                  IF /\ name = "content-type" /\ options.body = "formdata"
                     /\ CombinedValues(options.headers, name) = <<>>
                    THEN <<"multipart/form-data">>
                    ELSE CombinedValues(options.headers, name)],
   signal |-> options.signal,
   credentials |-> options.credentials,
   body |-> options.body]

PrepInit ==
  /\ IcptIdle /\ PipeIdle /\ TreeIdle /\ StrmIdle /\ CallersIdle
  /\ \E in \in PrepInputs :
       prep = [pc |-> "start", in |-> in, options |-> Undef, request |-> Undef]

\* _prepareFetch up to the request interceptors
PrepBuild ==
  /\ prep.pc = "start"
  /\ prep' = [prep EXCEPT !.pc = "built", !.options = PreparedOptions(prep.in)]
  /\ UNCHANGED <<icptVars, pipeVars, treeVars, strmVars, callerVars>>

\* fetchFn(new Request(fullUrl, options)), the interceptors having left the
\* options as they were
PrepSend ==
  /\ prep.pc = "built"
  /\ prep' = [prep EXCEPT !.pc = "sent", !.request = NewRequest(prep.options)]
  /\ UNCHANGED <<icptVars, pipeVars, treeVars, strmVars, callerVars>>

PrepNext == PrepBuild \/ PrepSend

SpecPrep == PrepInit /\ [][PrepNext]_vars

\* the value the layers owe for a header name: that of the last layer that
\* defines it, <<>> when none does
OwedHeader(in, name) ==
  LET ofCall == CombinedValues(in.callHeaders.entries, name)
      ofClient == CombinedValues(in.clientHeaders.entries, name)
  IN IF ofCall # <<>> THEN <<Last(ofCall)>>
     ELSE IF ofClient # <<>> THEN <<Last(ofClient)>>
     ELSE IF name = "content-type" THEN <<"application/json">>
     ELSE <<>>

FormCall(in) == in.method # "get" /\ in.data = "form"

\* C24: the headers of the request sent to the transport are the default
\* Content-Type overlaid by the client-level headers and then the per-call
\* headers: under every header name the request carries the value of the
\* last layer that defines the name.  (Accept of a stream call and
\* Content-Type of a form call are set by later steps and left open.)
C24_LastLayerWins ==
  prep.pc = "sent" =>
    \A name \in LowerNames :
      (~(name = "accept" /\ prep.in.response = "sse")
         /\ ~(name = "content-type" /\ FormCall(prep.in))) =>
        prep.request.headers[name] = OwedHeader(prep.in, name)

\* C25: a non-GET call with form data and no json data hands on options
\* with a form body and no Content-Type header, whatever headers the client
\* or the call configured.
C25_FormBodyDropsContentType ==
  (prep.pc \in {"built", "sent"} /\ FormCall(prep.in)) =>
    /\ prep.options.body = "formdata"
    /\ CombinedValues(prep.options.headers, "content-type") = <<>>

\* C30: the options handed on keep every client-level request option the
\* call does not set itself; a call that supplies no signal keeps the
\* client-level signal.
C30_ClientOptionsKept ==
  prep.pc \in {"built", "sent"} =>
    /\ prep.options.credentials = prep.in.credentials
    /\ prep.options.signal =
         (IF prep.in.callSignal # "undefined" THEN prep.in.callSignal
          ELSE prep.in.clientSignal)

\* the part of a body after its last line feed
TrailingLine(input) == Last(Split(BodyText(input), "\n"))

\* C26: every string the line reader yields is non-empty and equal to its
\* trimmed form, and the unterminated line at the end of the stream is
\* yielded exactly when it is non-empty.
C26_LinesAreTrimmed ==
  (strm.pc # "idle" /\ UsesReadLines(strm.kind)) =>
    /\ \A i \in 1..Len(strm.lines) :
         strm.lines[i] # <<>> /\ strm.lines[i] = Trim(strm.lines[i])
    /\ (strm.pc = "closed" /\ strm.ended = "end") =>
         (strm.final <=> TrailingLine(strm.input) # <<>>)

\* the generic placeholders of an error body that could not be obtained
Placeholders ==
  {[t |-> "message", v |-> "Unknown error"],
   [t |-> "message", v |-> "Failed to parse error body"]}

\* C27: the ApiError of a non-success response, scalar or streaming, carries
\* the JSON-decoded body when the body is valid JSON, else the body text when
\* it is non-empty, and the generic placeholder only when there is neither.
C27_ErrorBodyFallsBackToText ==
  (call.pc = "done" /\ call.transport = "resolved" /\ call.response # Undef
     /\ ~Ok(call.response) /\ call.result.kind = "error") =>
    LET text == call.response.body
        body == call.result.error.body
    IN /\ call.result.error.type = "ApiError"
       /\ IF JsonParse(text).ok THEN body = JsonParse(text).value
          ELSE IF text # "" THEN body = [t |-> "message", v |-> text]
          ELSE body \in Placeholders

\* the callbacks that were registered when the run started and whose
\* registration is still live, in registration order
Survivors ==
  SelectSeq(run.atStart,
            LAMBDA cb : \E i \in 1..Len(LiveRegistrations) : LiveRegistrations[i] = cb)

\* C28: when the callback list is mutated while a runAll is in flight, every
\* callback that was registered at its start and was not removed during it
\* has been invoked exactly once, in registration order, by the time the
\* loop ends: none is skipped, none runs twice.
C28_MutationSkipsNothing ==
  (run.pc = "loop" /\ run.idx > Len(callbacks) /\ run.mutated) =>
    LET invoked == [i \in 1..Len(run.calls) |-> run.calls[i].cb]
    IN SelectSeq(invoked, LAMBDA cb : \E i \in 1..Len(Survivors) : Survivors[i] = cb)
         = Survivors

\* C29: a local request transform or local response transform that returns
\* undefined leaves the value it was given unchanged, on the scalar and on
\* the streaming path: the global chain of that side starts from the value
\* the local transform received.
C29_UndefinedLocalTransformKeepsValue ==
  /\ (call.pc \notin {"idle", "prepare"} /\ call.localRequest = "undef") =>
       call.options = RunAllFold(call.requestCallbacks, BuiltOptions(call.input))
  /\ (call.pc \in {"status", "validate", "done"} /\ call.transport = "resolved"
        /\ call.localResponse = "undef") =>
       /\ call.response # Undef
       /\ [call.response EXCEPT !.bodyUsed = FALSE]
            = RunAllFold(call.responseCallbacks, call.fetched)
====
